---- MODULE Spec2Model ----
(***************************************************************************)
(* Model of assets/kiri.js, the front-end of the Kiri visual diff viewer.   *)
(*                                                                         *)
(* The state is the script's global variables and the part of the DOM the  *)
(* script reads and writes.  Every handler of the script is a pure         *)
(* operator from a state record to a state record; an action applies one   *)
(* handler to the current state.  A JavaScript exception is the field      *)
(* `thrown`: once it is set the rest of the handler is skipped, and the    *)
(* state is what the handler had written up to the throw.                  *)
(*                                                                         *)
(* JavaScript arrays are 0-based: At(seq, i) reads element i.  A value     *)
(* that may be null/undefined is a sequence of length at most one.         *)
(***************************************************************************)
EXTENDS Integers, Sequences, FiniteSets, TLC

\* ------------------------------------------------------------------------
\* Bounds of the model
\* ------------------------------------------------------------------------
NumCommits == 4       \* commits in the graph under SpecCommits
NumViewCommits == 3   \* commits in the graph under Spec
MaxZoom == 2          \* zoom levels 1..MaxZoom
MaxPanX == 1          \* horizontal pan positions 0..MaxPanX (steps of 50 px)
MaxPanY == 0          \* vertical pan positions 0..MaxPanY (steps of 50 px)
MaxRequests == 2      \* requests if_url_exists has sent
MaxProbes == 4        \* probes check_server_status has started

\* ------------------------------------------------------------------------
\* Generic helpers for JavaScript values
\* ------------------------------------------------------------------------
Null == <<>>
Some(v) == <<v>>
IsNull(o) == o = <<>>
Val(o) == o[1]

At(seq, i) == seq[i + 1]
HasIndex(seq, i) == i >= 0 /\ i < Len(seq)
IndexOf(seq, v) ==
  IF \E k \in 1..Len(seq) : seq[k] = v
  THEN (CHOOSE k \in 1..Len(seq) : seq[k] = v /\ \A j \in 1..(k - 1) : seq[j] # v) - 1
  ELSE -1
Includes(seq, v) == \E k \in 1..Len(seq) : seq[k] = v
\* With(e, LAMBDA v : body) is body with v standing for the value of e: the
\* handlers use it for the state after each of their statements
With(v, F(_)) == F(v)

Min(a, b) == IF a < b THEN a ELSE b
Max(a, b) == IF a > b THEN a ELSE b

RECURSIVE Dedup(_)
Dedup(seq) ==
  IF seq = <<>> THEN <<>>
  ELSE LET init == Dedup(SubSeq(seq, 1, Len(seq) - 1))
           last == seq[Len(seq)]
       IN IF Includes(init, last) THEN init ELSE Append(init, last)

RECURSIVE Filter(_, _)
Filter(seq, drop) ==
  IF seq = <<>> THEN <<>>
  ELSE IF Head(seq) = drop THEN Filter(Tail(seq), drop)
       ELSE <<Head(seq)>> \o Filter(Tail(seq), drop)

\* String.prototype.replace(pattern, "") on a text held as a sequence of
\* pieces: the first piece equal to the pattern is removed.
Replace(text, pattern) ==
  IF Includes(text, pattern)
  THEN LET k == IndexOf(text, pattern) + 1
       IN SubSeq(text, 1, k - 1) \o SubSeq(text, k + 1, Len(text))
  ELSE text

Digit(d) == <<"0", "1", "2", "3", "4", "5", "6", "7", "8", "9">>[d + 1]

RECURSIVE Digits(_)
Digits(num) == IF num < 10 THEN <<Digit(num)>> ELSE Digits(num \div 10) \o <<Digit(num % 10)>>

RECURSIVE PadLeft(_, _)
PadLeft(str, size) == IF Len(str) < size THEN PadLeft(<<"0">> \o str, size) ELSE str

pad(num, size) == PadLeft(Digits(num), size)

url_timestamp(timestamp_id) ==
  IF timestamp_id # "" THEN <<"?t=", timestamp_id>> ELSE <<"?t=", "now">>

\* ------------------------------------------------------------------------
\* The repository served to the viewer: the commit graph and, per commit,
\* the generated files _KIRI_/sch_sheets and _KIRI_/pcb_layers.
\* ------------------------------------------------------------------------
\* hashes of a project with schematics and a PCB layout, oldest first
AllHashes == <<"c0", "c1", "c2", "c3", "c4", "c5">>

\* hashes of a project that has schematics only
SchOnlyHashes == <<"s0", "s1">>

\* gitgraph._graph.commits of the repositories the viewer is opened on,
\* with at most `most` commits
Graphs(most) == {SchOnlyHashes} \cup {SubSeq(AllHashes, 1, n) : n \in 2..most}

\* hashes of a project that renames its only sheet in r1 and splits it in r2
RenamedHashes == <<"r0", "r1", "r2">>

SheetMain == <<"main", ".kicad_sch">>
SheetPower == <<"power", ".kicad_sch">>
SheetTop == <<"top", ".sch">>
SheetIo == <<"io", ".kicad_sch">>

\* Text of ../<commit>/_KIRI_/sch_sheets after split("\n"): one entry per
\* line, a line being its "|"-separated fields (<<>> is an empty line).
\* c2 renames sheet main to top; the later commits leave the sheets alone.
sch_sheets_file(commit) ==
  CASE commit \in {"c0", "s0"} -> << <<SheetMain, "1">>, <<>> >>
    [] commit \in {"c1", "s1"} -> << <<SheetMain, "1">>, <<SheetPower, "2">>, <<>> >>
    [] commit = "c4" -> << <<SheetPower, "2">>, <<SheetMain, "1">>, <<>> >>
    [] commit = "r0" -> << <<SheetIo, "1">>, <<>> >>
    [] commit = "r1" -> << <<SheetMain, "1">>, <<>> >>
    [] commit = "r2" -> << <<SheetTop, "1">>, <<SheetPower, "2">>, <<>> >>
    [] OTHER -> << <<SheetTop, "1">>, <<SheetPower, "2">>, <<>>, <<SheetTop, "1">> >>

\* Text of ../<commit>/_KIRI_/pcb_layers after split("\n"): lines ID|LAYER
pcb_layers_file(commit) ==
  CASE commit \in {"s0", "s1"} -> << <<>> >>
    [] commit \in {"c0", "c1", "c4", "r0", "r1", "r2"}
         -> << <<0, "F.Cu">>, <<31, "B.Cu">>, <<>> >>
    [] OTHER -> << <<31, "B.Cu">>, <<0, "F_Cu">>, <<1, "In1.Cu">>, <<>> >>

\* loadFile(path).split("\n").filter((a) => a): the non-empty lines
NonEmptyLines(file) == Filter(file, <<>>)

RECURSIVE FirstFields(_)
FirstFields(lines) ==
  IF lines = <<>> THEN <<>> ELSE <<Head(lines)[1]>> \o FirstFields(Tail(lines))

RECURSIVE PushMissing(_, _)
PushMissing(sheets, more) ==
  IF more = <<>> THEN sheets
  ELSE PushMissing(IF Includes(sheets, Head(more)) THEN sheets ELSE Append(sheets, Head(more)),
                   Tail(more))

\* SheetsOf without Array.from(new Set(sheets)): a sheet listed twice in
\* the first file stays twice in the list
SheetsOf_without_set(c1, c2) ==
  LET data1 == NonEmptyLines(sch_sheets_file(c1))
      data2 == NonEmptyLines(sch_sheets_file(c2))
  IN PushMissing(FirstFields(data1), FirstFields(data2))

\* the array `sheets` update_sheets_list builds from the two files
SheetsOf(c1, c2) ==
  LET data1 == NonEmptyLines(sch_sheets_file(c1))
      data2 == NonEmptyLines(sch_sheets_file(c2))
  IN Dedup(PushMissing(FirstFields(data1), FirstFields(data2)))

RECURSIVE DictFirst(_, _)
DictFirst(dict, lines) ==
  IF lines = <<>> THEN dict
  ELSE LET id == Head(lines)[1]
           layer == Head(lines)[2]
       IN DictFirst([k \in (DOMAIN dict) \cup {id} |-> IF k = id THEN <<layer>> ELSE dict[k]],
                    Tail(lines))

RECURSIVE DictSecond(_, _)
DictSecond(dict, lines) ==
  IF lines = <<>> THEN dict
  ELSE LET id == Head(lines)[1]
           layer == Head(lines)[2]
           next == IF id \notin DOMAIN dict
                   THEN [k \in (DOMAIN dict) \cup {id} |-> IF k = id THEN <<layer>> ELSE dict[k]]
                   ELSE IF dict[id] # <<layer>>
                        THEN [dict EXCEPT ![id] = Append(@, layer)]
                        ELSE dict
       IN DictSecond(next, Tail(lines))

RECURSIVE Ascending(_)
Ascending(ids) ==
  IF ids = {} THEN <<>>
  ELSE LET m == CHOOSE x \in ids : \A y \in ids : x <= y
       IN <<m>> \o Ascending(ids \ {m})

\* the radio inputs update_layers_list renders: Object.entries(dict) lists
\* integer keys in ascending order; id="layer-<id_pad>", value="layer-<names>"
LayersOf(c1, c2) ==
  LET dict == DictSecond(DictFirst(<<>>, NonEmptyLines(pcb_layers_file(c1))),
                         NonEmptyLines(pcb_layers_file(c2)))
      keys == Ascending(DOMAIN dict)
  IN [k \in 1..Len(keys) |-> [id |-> pad(keys[k], 2), names |-> dict[keys[k]]]]

RECURSIVE LayerNames(_)
LayerNames(layers) ==
  IF layers = <<>> THEN <<>> ELSE <<Head(layers).names>> \o LayerNames(Tail(layers))

\* ------------------------------------------------------------------------
\* Image and model paths
\* ------------------------------------------------------------------------
page_filename(value) == Replace(Replace(value, ".kicad_sch"), ".sch")

\* sch_image_path with url_timestamp() called without the commit: the image
\* is stamped with the time instead of the hash
sch_image_path_untimed(commit, page_value) ==
  <<"../", commit, "/_KIRI_/sch/">> \o page_filename(page_value) \o <<".svg">>
    \o url_timestamp("")

sch_image_path(commit, page_value) ==
  <<"../", commit, "/_KIRI_/sch/">> \o page_filename(page_value) \o <<".svg">>
    \o url_timestamp(commit)

pcb_image_path(commit, layer_id) ==
  <<"../", commit, "/_KIRI_/pcb/layer", "-">> \o layer_id \o <<".svg">>
    \o url_timestamp(commit)

model_path(commit) == <<"../", commit, "/_KIRI_/3d_model/main.gltf">>

\* ------------------------------------------------------------------------
\* State
\* ------------------------------------------------------------------------
VARIABLES
  commits,                \* gitgraph._graph.commits: the hashes, oldest first
  commit1, commit2,       \* the pair being compared (commit1 the newer)
  checked,                \* indices of the checked commit checkboxes
  commit1_hash,           \* hidden input commit1_hash
  commit2_hash,           \* hidden input commit2_hash
  old_view, current_view,
  view_mode,              \* the checked view_mode radio
  pages,                  \* ids (= values) of the page radios, in order
  page_checked,           \* index of the checked page radio, -1 if none
  selected_sheet,         \* global written by update_sheets_list
  current_selected_page,
  previous_selected_page,
  layers,                 \* the layer radios, in order
  layer_checked,          \* index of the checked layer radio, -1 if none
  pages_list_display,     \* style.display of pages_list
  layers_list_display,    \* style.display of layers_list
  embed,                  \* content of the div-svg element getElementById finds
  lastEmbed,              \* Null, or which div-svg lastEmbed refers to
  panZoom_instance,       \* Null, or the svg-pan-zoom instance
  sch_current_zoom, sch_old_zoom, sch_current_pan,
  pcb_current_zoom, pcb_old_zoom, pcb_current_pan,
  is_fullscreen,          \* the script's fullscreen flag
  fullscreenElement,      \* the browser shows an element in fullscreen
  fullscreen_label,       \* number of fullscreen_label elements in diff-container
  requests,               \* the XMLHttpRequests if_url_exists has sent
  server_status,          \* 1 online, 0 offline
  old_server_status,      \* the status last logged, -1 before the first probe
  server_offline_display, \* style.display of the server_offline banner
  server_status_img,      \* Null, or the probe image: the number of its src
                          \* and whether that src is still loading
  timers,                 \* pending timeouts of check_server_status
  status_log,             \* the status messages written to the console
  thrown,                 \* the last handler ended with an uncaught exception
  op, arg,                \* the last handler run and its argument
  sch_at_switch,          \* history: Null, or the schematic zoom and pan at the
                          \* latest switch from the schematic to the PCB view,
                          \* kept until the schematic embed's first update
  left_at                 \* history, per 2D view: Null, or the zoom and pan the
                          \* view showed when it was last left, kept until the
                          \* first update of an embed of that view; field "on"
                          \* says whether the behaviour keeps this history

vars == <<commits, commit1, commit2, checked, commit1_hash, commit2_hash,
          old_view, current_view, view_mode, pages, page_checked,
          selected_sheet, current_selected_page, previous_selected_page,
          layers, layer_checked, pages_list_display, layers_list_display,
          embed, lastEmbed, panZoom_instance,
          sch_current_zoom, sch_old_zoom, sch_current_pan,
          pcb_current_zoom, pcb_old_zoom, pcb_current_pan,
          is_fullscreen, fullscreenElement, fullscreen_label, requests,
          server_status, old_server_status, server_offline_display,
          server_status_img, timers, status_log,
          thrown, op, arg,
          sch_at_switch, left_at>>

\* the state as one record, the form the handlers work on
State ==
  [commits |-> commits, commit1 |-> commit1, commit2 |-> commit2,
   checked |-> checked, commit1_hash |-> commit1_hash, commit2_hash |-> commit2_hash,
   old_view |-> old_view, current_view |-> current_view, view_mode |-> view_mode,
   pages |-> pages, page_checked |-> page_checked, selected_sheet |-> selected_sheet,
   current_selected_page |-> current_selected_page,
   previous_selected_page |-> previous_selected_page,
   layers |-> layers, layer_checked |-> layer_checked,
   pages_list_display |-> pages_list_display,
   layers_list_display |-> layers_list_display,
   embed |-> embed, lastEmbed |-> lastEmbed, panZoom_instance |-> panZoom_instance,
   sch_current_zoom |-> sch_current_zoom, sch_old_zoom |-> sch_old_zoom,
   sch_current_pan |-> sch_current_pan,
   pcb_current_zoom |-> pcb_current_zoom, pcb_old_zoom |-> pcb_old_zoom,
   pcb_current_pan |-> pcb_current_pan,
   is_fullscreen |-> is_fullscreen, fullscreenElement |-> fullscreenElement,
   fullscreen_label |-> fullscreen_label, requests |-> requests,
   server_status |-> server_status, old_server_status |-> old_server_status,
   server_offline_display |-> server_offline_display,
   server_status_img |-> server_status_img, timers |-> timers,
   status_log |-> status_log,
   thrown |-> FALSE]

Throw(s) == [s EXCEPT !.thrown = TRUE]

\* ------------------------------------------------------------------------
\* Embeds and the pan/zoom instance
\* ------------------------------------------------------------------------
\* All embeds carry the id div-svg, so getElementById('div-svg') and the
\* lookups of diff-xlink-N / diff-model-N resolve inside the first one in
\* the container.  `embed` is that element's content; lastEmbed tells
\* whether the script's reference is to that element ("first") or to an
\* empty div appended after it ("other").
NewPanZoom == [zoom |-> 1, pan |-> [x |-> 0, y |-> 0], pending |-> FALSE]

removeEmbed(s) ==
  IF IsNull(s.panZoom_instance) THEN s
  ELSE LET pz == Val(s.panZoom_instance)
           s1 == IF s.old_view # "show_3d"
                 THEN IF s.current_view = "show_pcb"
                      THEN [s EXCEPT !.sch_current_zoom = Some(pz.zoom),
                                     !.sch_current_pan = Some(pz.pan),
                                     !.sch_old_zoom = Null]
                      ELSE IF s.current_view = "show_sch"
                           THEN [s EXCEPT !.pcb_current_zoom = Some(pz.zoom),
                                          !.pcb_current_pan = Some(pz.pan),
                                          !.pcb_old_zoom = Null]
                           ELSE s
                 ELSE s
       IN [s1 EXCEPT !.panZoom_instance = Null,
                     !.embed = IF s.lastEmbed = Some("first") THEN Null ELSE @,
                     !.lastEmbed = Null]

\* createNewEmbed and the assignment of its result to lastEmbed
createNewEmbed(s, src1, src2) ==
  [s EXCEPT !.embed = Some([kind |-> "svg", src1 |-> src1, src2 |-> src2]),
            !.panZoom_instance = Some(NewPanZoom),
            !.lastEmbed = IF IsNull(s.embed) THEN Some("first") ELSE Some("other")]

\* createNewEmbed3d and the assignment of its result to lastEmbed
createNewEmbed3d(s, src1, src2) ==
  [s EXCEPT !.embed = Some([kind |-> "3d", src1 |-> src1, src2 |-> src2]),
            !.panZoom_instance = Null,
            !.lastEmbed = IF IsNull(s.embed) THEN Some("first") ELSE Some("other")]

\* the else branches of update_page / update_layer / update_3d: the sources
\* are written to the existing elements; a missing element is a TypeError
SetSources(s, kind, src1, src2) ==
  IF ~IsNull(s.embed) /\ Val(s.embed).kind = kind
  THEN [s EXCEPT !.embed = Some([kind |-> kind, src1 |-> src1, src2 |-> src2])]
  ELSE Throw(s)

\* the label is looked up by its id, its texts are rewritten when it is
\* found, and it is inserted into diff-container when it is not
update_fullscreen_label(s) ==
  LET s1 == [s EXCEPT !.commit1 = s.commit1_hash, !.commit2 = s.commit2_hash]
      view_item_found ==
        IF s1.current_view = "show_sch" THEN HasIndex(s1.pages, s1.page_checked)
        ELSE HasIndex(s1.layers, s1.layer_checked)
  IN IF ~view_item_found THEN Throw(s1)
     ELSE IF s1.is_fullscreen /\ s1.fullscreen_label = 0
          THEN [s1 EXCEPT !.fullscreen_label = 1]
     ELSE s1

\* ------------------------------------------------------------------------
\* Schematic pages
\* ------------------------------------------------------------------------
\* update_sheets_list checking, in the new list, the radio at the index of
\* the old selection instead of the radio of the same sheet
update_sheets_list_keeping_index(s, c1, c2, up) ==
  With(IF HasIndex(s.pages, s.page_checked)
       THEN [s EXCEPT !.selected_sheet = Some(At(s.pages, s.page_checked))]
       ELSE s, LAMBDA s1 :
  With(SheetsOf(c1, c2), LAMBDA new_sheets_list :
  With([s1 EXCEPT !.pages = new_sheets_list, !.page_checked = -1], LAMBDA rendered :
    IF ~up THEN Throw(s1)
    ELSE IF s.pages = new_sheets_list THEN s1
    ELSE IF new_sheets_list = <<>> THEN Throw(s1)
    ELSE IF ~IsNull(s1.selected_sheet) /\ Includes(s.pages, Val(s1.selected_sheet))
         THEN [rendered EXCEPT
                 !.page_checked = IF HasIndex(new_sheets_list, s.page_checked)
                                  THEN s.page_checked ELSE -1]
         ELSE IF s.pages = <<>> THEN Throw(rendered) ELSE rendered)))

update_sheets_list(s, c1, c2, up) ==
  With(IF HasIndex(s.pages, s.page_checked)
       THEN [s EXCEPT !.selected_sheet = Some(At(s.pages, s.page_checked))]
       ELSE s, LAMBDA s1 :
  With(SheetsOf(c1, c2), LAMBDA new_sheets_list :
  With([s1 EXCEPT !.pages = new_sheets_list, !.page_checked = -1], LAMBDA rendered :
    IF ~up THEN Throw(s1)
    ELSE IF s.pages = new_sheets_list THEN s1
    ELSE IF new_sheets_list = <<>> THEN Throw(s1)
    ELSE IF ~IsNull(s1.selected_sheet) /\ Includes(s.pages, Val(s1.selected_sheet))
         THEN [rendered EXCEPT
                 !.page_checked = IndexOf(new_sheets_list, Val(s1.selected_sheet))]
         ELSE IF s.pages = <<>> THEN Throw(rendered) ELSE rendered)))

update_page(s, up) ==
  With(update_sheets_list(s, s.commit1, s.commit2, up), LAMBDA s1 :
  With(s1.previous_selected_page > -1, LAMBDA restore :
    IF s1.thrown THEN s1
    ELSE IF restore /\ ~HasIndex(s1.pages, s1.previous_selected_page) THEN Throw(s1)
    ELSE
  With(IF restore
       THEN [s1 EXCEPT !.page_checked = s1.previous_selected_page,
                       !.previous_selected_page = -1]
       ELSE s1, LAMBDA s2 :
    IF s2.page_checked < 0 /\ s2.pages = <<>>
    THEN Throw([s2 EXCEPT !.previous_selected_page = s2.current_selected_page])
    ELSE
  With(IF s2.page_checked >= 0
       THEN [s2 EXCEPT !.current_selected_page = s2.page_checked]
       ELSE [s2 EXCEPT !.previous_selected_page = s2.current_selected_page,
                       !.page_checked = 0], LAMBDA s3 :
  With(sch_image_path(s3.commit1, At(s3.pages, s3.page_checked)),
       LAMBDA image_path_timestamp_1 :
  With(sch_image_path(s3.commit2, At(s3.pages, s3.page_checked)),
       LAMBDA image_path_timestamp_2 :
  With(IF s3.current_view # s3.old_view
       THEN createNewEmbed(removeEmbed(s3), image_path_timestamp_1,
                           image_path_timestamp_2)
       ELSE SetSources(s3, "svg", image_path_timestamp_1, image_path_timestamp_2),
       LAMBDA s4 :
    IF s4.thrown THEN s4 ELSE update_fullscreen_label(s4))))))))

show_sch(s, up) ==
  update_page([s EXCEPT !.old_view = s.current_view, !.current_view = "show_sch",
                        !.view_mode = "show_sch",
                        !.pages_list_display = "inline",
                        !.layers_list_display = "none"], up)

\* ------------------------------------------------------------------------
\* PCB layers
\* ------------------------------------------------------------------------
\* The selector [value=<selected_layer>] compares the values, which are
\* "layer-<names>", with an id, which is "layer-<id_pad>": it selects
\* nothing, so the re-rendered list gets its selection from
\* selected_layer_idx alone.
update_layers_list(s, c1, c2, selected_layer_idx, up) ==
  With(HasIndex(s.layers, s.layer_checked), LAMBDA hasOption :
  With(LayersOf(c1, c2), LAMBDA new_layers :
  With([s EXCEPT !.layers = new_layers, !.layer_checked = -1], LAMBDA rendered :
    IF ~up THEN Throw(s)
    ELSE IF LayerNames(s.layers) = LayerNames(new_layers) THEN s
    ELSE IF new_layers = <<>> THEN Throw(s)
    ELSE IF ~hasOption /\ s.layers = <<>> THEN Throw(rendered)
    ELSE IF selected_layer_idx >= 0 /\ ~HasIndex(new_layers, selected_layer_idx)
         THEN Throw(rendered)
    ELSE IF selected_layer_idx >= 0
         THEN [rendered EXCEPT !.layer_checked = selected_layer_idx]
         ELSE [rendered EXCEPT !.layer_checked = 0])))

\* update_layer returning from its catch branch without show_sch()
update_layer_no_fallback(s, up) ==
  With(IF s.layer_checked >= 0 THEN s ELSE [s EXCEPT !.layer_checked = 0],
       LAMBDA s1 :
  With(s1.layer_checked, LAMBDA selected_layer :
    IF ~HasIndex(s1.layers, selected_layer) THEN s
    ELSE
  With(At(s1.layers, selected_layer).id, LAMBDA layer_id :
  With(update_layers_list(s1, s1.commit1, s1.commit2, selected_layer, up),
       LAMBDA s2 :
    IF s2.thrown THEN s2
    ELSE
  With(pcb_image_path(s2.commit1, layer_id), LAMBDA image_path_timestamp_1 :
  With(pcb_image_path(s2.commit2, layer_id), LAMBDA image_path_timestamp_2 :
  With(IF s2.current_view # s2.old_view
       THEN createNewEmbed(removeEmbed(s2), image_path_timestamp_1,
                           image_path_timestamp_2)
       ELSE SetSources(s2, "svg", image_path_timestamp_1, image_path_timestamp_2),
       LAMBDA s3 :
    IF s3.thrown THEN s3 ELSE update_fullscreen_label(s3))))))))

update_layer(s, up) ==
  With(IF s.layer_checked >= 0 THEN s ELSE [s EXCEPT !.layer_checked = 0],
       LAMBDA s1 :
  With(s1.layer_checked, LAMBDA selected_layer :
    IF ~HasIndex(s1.layers, selected_layer) THEN show_sch(s, up)
    ELSE
  With(At(s1.layers, selected_layer).id, LAMBDA layer_id :
  With(update_layers_list(s1, s1.commit1, s1.commit2, selected_layer, up),
       LAMBDA s2 :
    IF s2.thrown THEN s2
    ELSE
  With(pcb_image_path(s2.commit1, layer_id), LAMBDA image_path_timestamp_1 :
  With(pcb_image_path(s2.commit2, layer_id), LAMBDA image_path_timestamp_2 :
  With(IF s2.current_view # s2.old_view
       THEN createNewEmbed(removeEmbed(s2), image_path_timestamp_1,
                           image_path_timestamp_2)
       ELSE SetSources(s2, "svg", image_path_timestamp_1, image_path_timestamp_2),
       LAMBDA s3 :
    IF s3.thrown THEN s3 ELSE update_fullscreen_label(s3))))))))

show_pcb(s, up) ==
  update_layer([s EXCEPT !.old_view = s.current_view, !.current_view = "show_pcb",
                         !.view_mode = "show_pcb",
                         !.layers_list_display = "inline",
                         !.pages_list_display = "none"], up)

\* ------------------------------------------------------------------------
\* 3D model
\* ------------------------------------------------------------------------
update_3d(s) ==
  IF s.current_view # s.old_view
  THEN createNewEmbed3d(removeEmbed(s), model_path(s.commit1), model_path(s.commit2))
  ELSE SetSources(s, "3d", model_path(s.commit1), model_path(s.commit2))

show_3d(s) ==
  update_3d([s EXCEPT !.old_view = s.current_view, !.current_view = "show_3d",
                      !.view_mode = "show_3d",
                      !.layers_list_display = "none",
                      !.pages_list_display = "none"])

\* ------------------------------------------------------------------------
\* Commits
\* ------------------------------------------------------------------------
update_commits(s, up) ==
  With([s EXCEPT !.commit1_hash = s.commit1, !.commit2_hash = s.commit2,
                 !.old_view = s.current_view, !.current_view = s.view_mode],
       LAMBDA s1 :
    IF s1.current_view = "show_sch" THEN update_page(s1, up)
    ELSE IF s1.current_view = "show_pcb" THEN update_layer(s1, up)
    ELSE IF s1.current_view = "show_3d" THEN update_3d(s1)
    ELSE s1)

\* the index the loop of commit_click leaves for a hash: 0 when not found
GraphIndex(graph, hash) == IF Includes(graph, hash) THEN IndexOf(graph, hash) ELSE 0

\* commit_click with <= in the distance comparison: a tie replaces commit2
commit_click_tie_to_commit2(s, hash, up) ==
  LET hash_idx == GraphIndex(s.commits, hash)
      commit1_idx == GraphIndex(s.commits, s.commit1)
      commit2_idx == GraphIndex(s.commits, s.commit2)
      s1 == IF hash_idx <= commit2_idx THEN [s EXCEPT !.commit2 = hash]
            ELSE IF hash_idx >= commit1_idx THEN [s EXCEPT !.commit1 = hash]
            ELSE IF hash_idx - commit2_idx <= commit1_idx - hash_idx
                 THEN [s EXCEPT !.commit2 = hash]
                 ELSE [s EXCEPT !.commit1 = hash]
  IN update_commits(s1, up)

commit_click(s, hash, up) ==
  LET hash_idx == GraphIndex(s.commits, hash)
      commit1_idx == GraphIndex(s.commits, s.commit1)
      commit2_idx == GraphIndex(s.commits, s.commit2)
      s1 == IF hash_idx <= commit2_idx THEN [s EXCEPT !.commit2 = hash]
            ELSE IF hash_idx >= commit1_idx THEN [s EXCEPT !.commit1 = hash]
            ELSE IF hash_idx - commit2_idx < commit1_idx - hash_idx
                 THEN [s EXCEPT !.commit2 = hash]
                 ELSE [s EXCEPT !.commit1 = hash]
  IN update_commits(s1, up)

\* --- the commit checkboxes ---
max_allowed == 2

\* value of commit checkbox i: the list shows the newest commit first
CheckboxValue(graph, i) == At(graph, Len(graph) - 1 - i)

selected_commits(s) == Ascending(s.checked)

Shift(sel, d) == [k \in 1..Len(sel) |-> sel[k] + d]

\* a[i] = v; the handlers assign past the end of the array only values
\* that are never read again
Put(a, i, v) == IF HasIndex(a, i) THEN [a EXCEPT ![i + 1] = v] ELSE a

RECURSIVE CheckEach(_, _)
CheckEach(s, next) ==
  IF next = <<>> THEN s
  ELSE IF HasIndex(s.commits, Head(next))
       THEN CheckEach([s EXCEPT !.checked = @ \cup {Head(next)}], Tail(next))
       ELSE Throw(s)

\* the two closing loops of every navigation handler, then update_commits
ApplySelection(s, sel, next, up) ==
  With(CheckEach([s EXCEPT !.checked = @ \ {sel[k] : k \in 1..Len(sel)}], next),
       LAMBDA s1 :
    IF s1.thrown THEN s1 ELSE update_commits(s1, up))

\* select_next_2_commits without its else branch: the first commit moves
\* forward with the second
select_next_2_commits_moving_first(s, up) ==
  LET n == Len(s.commits)
      sel == selected_commits(s)
      n0 == Shift(sel, 1)
      n1 == IF HasIndex(n0, 1) /\ At(n0, 1) >= n
            THEN LET a == Put(n0, 1, n - 1)
                 IN IF At(a, 0) <= n - 2 THEN Put(a, 0, At(sel, 0) + 1) ELSE a
            ELSE n0
      n2 == IF HasIndex(n1, 1) /\ At(n1, 0) >= At(n1, 1)
            THEN Put(n1, 0, At(n1, 1) - 1) ELSE n1
      n3 == IF HasIndex(n2, 0) /\ At(n2, 0) >= n - 2 THEN Put(n2, 0, n - 2) ELSE n2
  IN ApplySelection(s, sel, n3, up)

select_next_2_commits(s, up) ==
  LET n == Len(s.commits)
      sel == selected_commits(s)
      n0 == Shift(sel, 1)
      n1 == IF HasIndex(n0, 1) /\ At(n0, 1) >= n
            THEN LET a == Put(n0, 1, n - 1)
                 IN IF At(a, 0) <= n - 2 THEN Put(a, 0, At(sel, 0) + 1) ELSE a
            ELSE IF HasIndex(n0, 0) THEN Put(n0, 0, At(sel, 0)) ELSE n0
      n2 == IF HasIndex(n1, 1) /\ At(n1, 0) >= At(n1, 1)
            THEN Put(n1, 0, At(n1, 1) - 1) ELSE n1
      n3 == IF HasIndex(n2, 0) /\ At(n2, 0) >= n - 2 THEN Put(n2, 0, n - 2) ELSE n2
  IN ApplySelection(s, sel, n3, up)

\* select_next_commit without the boundary fix of the first commit
select_next_commit_unclamped_first(s, up) ==
  LET n == Len(s.commits)
      sel == selected_commits(s)
      n0 == Shift(sel, 1)
      n1 == IF HasIndex(n0, 1) /\ At(n0, 1) >= n - 1 THEN Put(n0, 1, n - 1) ELSE n0
  IN ApplySelection(s, sel, n1, up)

select_next_commit(s, up) ==
  LET n == Len(s.commits)
      sel == selected_commits(s)
      n0 == Shift(sel, 1)
      n1 == IF HasIndex(n0, 1) /\ At(n0, 1) >= n - 1 THEN Put(n0, 1, n - 1) ELSE n0
      n2 == IF HasIndex(n1, 0) /\ At(n1, 0) >= n - 2 THEN Put(n1, 0, n - 2) ELSE n1
  IN ApplySelection(s, sel, n2, up)

\* select_previows_2_commits without the step for touching commits
select_previows_2_commits_no_touch(s, up) ==
  LET sel == selected_commits(s)
      n0 == Shift(sel, -1)
      n1 == IF HasIndex(n0, 0) THEN Put(n0, 0, At(sel, 0)) ELSE n0
      n3 == IF HasIndex(n1, 0) /\ At(n1, 0) < 0 THEN Put(n1, 0, 0) ELSE n1
      n4 == IF HasIndex(n3, 1) /\ At(n3, 1) <= 1 THEN Put(n3, 1, 1) ELSE n3
  IN ApplySelection(s, sel, n4, up)

select_previows_2_commits(s, up) ==
  LET sel == selected_commits(s)
      n0 == Shift(sel, -1)
      n1 == IF HasIndex(n0, 0) THEN Put(n0, 0, At(sel, 0)) ELSE n0
      n2 == IF HasIndex(n1, 1) /\ At(n1, 1) = At(n1, 0) /\ At(n1, 0) > 0
            THEN Put(n1, 0, At(n1, 0) - 1) ELSE n1
      n3 == IF HasIndex(n2, 0) /\ At(n2, 0) < 0 THEN Put(n2, 0, 0) ELSE n2
      n4 == IF HasIndex(n3, 1) /\ At(n3, 1) <= 1 THEN Put(n3, 1, 1) ELSE n3
  IN ApplySelection(s, sel, n4, up)

select_previows_commit(s, up) ==
  LET sel == selected_commits(s)
      n0 == Shift(sel, -1)
      n1 == IF HasIndex(n0, 0) /\ At(n0, 0) <= 0 THEN Put(n0, 0, 0) ELSE n0
      n2 == IF HasIndex(n1, 1) /\ At(n1, 1) <= 1 THEN Put(n1, 1, 1) ELSE n1
  IN ApplySelection(s, sel, n2, up)

reset_commits_selection(s, up) ==
  IF Len(s.commits) < 2
  THEN Throw([s EXCEPT !.checked = IF Len(s.commits) = 1 THEN {0} ELSE {}])
  ELSE update_commits([s EXCEPT !.checked = {0, 1}], up)

\* the change handler without the limit: the new check is never undone
commit_checkbox_change_unlimited(s, i) ==
  [s EXCEPT !.checked = IF i \in s.checked THEN s.checked \ {i} ELSE s.checked \cup {i}]

\* the change handler of a commit checkbox the user has just toggled
commit_checkbox_change(s, i) ==
  LET toggled == IF i \in s.checked THEN s.checked \ {i} ELSE s.checked \cup {i}
      count == Cardinality(toggled)
  IN [s EXCEPT !.checked = IF count > max_allowed THEN toggled \ {i} ELSE toggled]

\* ------------------------------------------------------------------------
\* View and page/layer navigation
\* ------------------------------------------------------------------------
\* toggle_sch_pcb_view switching between the schematic and the PCB only
toggle_sch_pcb_view_two_views(s, up) ==
  With([s EXCEPT !.old_view = s.current_view, !.current_view = s.view_mode],
       LAMBDA s1 :
  With(IF s1.current_view = "show_sch" THEN show_pcb(s1, up)
       ELSE show_sch(s1, up), LAMBDA s2 :
    IF s2.thrown THEN s2 ELSE update_commits(s2, up)))

toggle_sch_pcb_view(s, up) ==
  With([s EXCEPT !.old_view = s.current_view, !.current_view = s.view_mode],
       LAMBDA s1 :
  With(IF s1.current_view = "show_sch" THEN show_pcb(s1, up)
       ELSE IF s1.current_view = "show_pcb" THEN show_3d(s1)
       ELSE IF s1.current_view = "show_3d" THEN show_sch(s1, up)
       ELSE s1, LAMBDA s2 :
    IF s2.thrown THEN s2 ELSE update_commits(s2, up)))

select_next_sch_or_pcb(s, cycle, up) ==
  IF s.view_mode = "show_sch"
  THEN LET n == Len(s.pages)
           new_index == IF s.page_checked + 1 >= n
                        THEN IF cycle THEN 0 ELSE n - 1
                        ELSE s.page_checked + 1
       IN IF HasIndex(s.pages, new_index)
          THEN update_page([s EXCEPT !.page_checked = new_index], up)
          ELSE Throw(s)
  ELSE LET n == Len(s.layers)
           new_index == IF s.layer_checked + 1 >= n
                        THEN IF cycle THEN 0 ELSE n - 1
                        ELSE s.layer_checked + 1
       IN IF HasIndex(s.layers, new_index)
          THEN update_layer([s EXCEPT !.layer_checked = new_index], up)
          ELSE Throw(s)

select_preview_sch_or_pcb(s, cycle, up) ==
  IF s.current_view = "show_sch"
  THEN LET n == Len(s.pages)
           new_index == IF s.page_checked - 1 < 0
                        THEN IF cycle THEN n - 1 ELSE 0
                        ELSE s.page_checked - 1
       IN IF ~HasIndex(s.pages, new_index) THEN Throw(s)
          ELSE With(update_page([s EXCEPT !.page_checked = new_index], up),
                    LAMBDA s1 :
                 IF s1.thrown THEN s1
                 ELSE update_sheets_list(s1, s1.commit1, s1.commit2, up))
  ELSE IF s.current_view = "show_pcb"
  THEN LET n == Len(s.layers)
           new_index == IF s.layer_checked - 1 < 0
                        THEN IF cycle THEN n - 1 ELSE 0
                        ELSE s.layer_checked - 1
       IN IF HasIndex(s.layers, new_index)
          THEN update_layer([s EXCEPT !.layer_checked = new_index], up)
          ELSE Throw(s)
  ELSE s

\* onchange="update_page()" of a page radio the user has just checked
page_radio_change(s, i, up) == update_page([s EXCEPT !.page_checked = i], up)

\* onchange="update_layer()" of a layer radio the user has just checked
layer_radio_change(s, i, up) == update_layer([s EXCEPT !.layer_checked = i], up)

\* ------------------------------------------------------------------------
\* Pan and zoom.  Zoom is a level 1..MaxZoom (minZoom..maxZoom of the
\* library), pan a grid position.  A call that changes the transform leaves
\* an update pending; the library then calls onUpdatedCTM.
\* ------------------------------------------------------------------------
SetZoomPan(s, zoom, pan) ==
  LET pz == Val(s.panZoom_instance)
  IN [s EXCEPT !.panZoom_instance =
        Some([zoom |-> zoom, pan |-> pan,
              pending |-> pz.pending \/ zoom # pz.zoom \/ pan # pz.pan])]

svg_zoom_in(s) ==
  IF IsNull(s.panZoom_instance) THEN Throw(s)
  ELSE LET pz == Val(s.panZoom_instance)
       IN SetZoomPan(s, Min(pz.zoom + 1, MaxZoom), pz.pan)

svg_zoom_out(s) ==
  IF IsNull(s.panZoom_instance) THEN Throw(s)
  ELSE LET pz == Val(s.panZoom_instance)
       IN SetZoomPan(s, Max(pz.zoom - 1, 1), pz.pan)

svg_fit_center(s) ==
  IF IsNull(s.panZoom_instance) THEN Throw(s)
  ELSE SetZoomPan(s, NewPanZoom.zoom, NewPanZoom.pan)

PanDirections == <<"up", "down", "left", "right">>

PanBy(pan, direction) ==
  CASE direction = "up" -> [pan EXCEPT !.y = @ + 1]
    [] direction = "down" -> [pan EXCEPT !.y = @ - 1]
    [] direction = "left" -> [pan EXCEPT !.x = @ + 1]
    [] direction = "right" -> [pan EXCEPT !.x = @ - 1]
    [] OTHER -> pan

manual_pan(s, direction) ==
  IF IsNull(s.panZoom_instance) THEN Throw(s)
  ELSE LET pz == Val(s.panZoom_instance)
       IN SetZoomPan(s, pz.zoom, PanBy(pz.pan, direction))

onUpdatedCTM(s) ==
  LET pz == Val(s.panZoom_instance)
      done == [s EXCEPT !.panZoom_instance = Some([pz EXCEPT !.pending = FALSE])]
  IN IF s.current_view = "show_sch"
     THEN IF s.sch_current_zoom # s.sch_old_zoom
          THEN [SetZoomPan(done, Val(s.sch_current_zoom), Val(s.sch_current_pan))
                  EXCEPT !.sch_old_zoom = s.sch_current_zoom]
          ELSE done
     ELSE IF s.pcb_current_zoom # s.pcb_old_zoom
          THEN [SetZoomPan(done, Val(s.pcb_current_zoom), Val(s.pcb_current_pan))
                  EXCEPT !.pcb_old_zoom = s.pcb_current_zoom]
          ELSE done

\* ------------------------------------------------------------------------
\* Fullscreen
\* ------------------------------------------------------------------------
\* key f.  requestFullscreen and exitFullscreen are taken to succeed; box is
\* null, and box.remove() throws, when no fullscreen_label is in the document
toogle_fullscreen(s) ==
  IF s.fullscreenElement
  THEN With([s EXCEPT !.fullscreenElement = FALSE, !.is_fullscreen = FALSE],
            LAMBDA s1 :
         IF s1.fullscreen_label = 0 THEN Throw(s1)
         ELSE [s1 EXCEPT !.fullscreen_label = @ - 1])
  ELSE update_fullscreen_label(
         [s EXCEPT !.fullscreenElement = TRUE, !.is_fullscreen = TRUE])

\* The browser leaves fullscreen on its own (Esc): the script registers no
\* fullscreenchange listener, so none of its code runs.
browser_exits_fullscreen(s) == [s EXCEPT !.fullscreenElement = FALSE]

\* ------------------------------------------------------------------------
\* if_url_exists.  A request is sent with one listener, onprogress; `called`
\* lists the arguments its callback has been invoked with.
\* ------------------------------------------------------------------------
\* HTTP statuses a response can carry
Statuses == {200, 204, 304, 404, 500}

if_url_exists(s, url) ==
  [s EXCEPT !.requests = Append(@, [url |-> url, readyState |-> "sent",
                                    status |-> 0, called |-> <<>>])]

\* onprogress taking the 3xx statuses for success as well
onprogress_accepting_3xx(s, k, status) ==
  With(Digits(status)[1], LAMBDA statusFirstNumber :
    [s EXCEPT !.requests[k] =
       [@ EXCEPT !.status = status,
                 !.readyState = "aborted",
                 !.called = Append(@, statusFirstNumber \in {"2", "3"})]])

\* request.onprogress, run for a progress event of request k whose response
\* carries `status`: the callback is called and the request aborted
onprogress(s, k, status) ==
  With(Digits(status)[1], LAMBDA statusFirstNumber :
    [s EXCEPT !.requests[k] =
       [@ EXCEPT !.status = status,
                 !.readyState = "aborted",
                 !.called = Append(@, statusFirstNumber = "2")]])

\* Request k fails before any response (server down, connection refused):
\* the browser fires error and loadend, for which no listener is set.
request_fails(s, k) == [s EXCEPT !.requests[k] = [@ EXCEPT !.readyState = "failed"]]

\* ------------------------------------------------------------------------
\* Server status.  check_server_status points the probe image at a fresh
\* favicon URL (src numbered 1, 2, ...) and sets a timeout for its next run;
\* assigning src abandons a load still in progress.  The image's load and
\* error events run server_is_online and server_is_offline.
\* ------------------------------------------------------------------------
check_server_status(s) ==
  [s EXCEPT !.server_status_img =
              Some([src |-> IF IsNull(@) THEN 1 ELSE Val(@).src + 1,
                    loading |-> TRUE]),
            !.timers = @ + 1]

server_is_online(s) ==
  LET s1 == [s EXCEPT !.server_status = 1, !.server_offline_display = "none"]
  IN IF s1.server_status # s1.old_server_status
     THEN [s1 EXCEPT !.old_server_status = s1.server_status,
                     !.status_log = Append(@, "Server is Online")]
     ELSE s1

server_is_offline_without_record(s) ==
  LET s1 == [s EXCEPT !.server_status = 0, !.server_offline_display = "block"]
  IN IF s1.server_status # s1.old_server_status
     THEN [s1 EXCEPT !.status_log = Append(@, "Server is Offline")]
     ELSE s1

server_is_offline(s) ==
  LET s1 == [s EXCEPT !.server_status = 0, !.server_offline_display = "block"]
  IN IF s1.server_status # s1.old_server_status
     THEN [s1 EXCEPT !.old_server_status = s1.server_status,
                     !.status_log = Append(@, "Server is Offline")]
     ELSE s1

\* the events of the probe image end its load
Loaded(s) ==
  [s EXCEPT !.server_status_img = Some([Val(@) EXCEPT !.loading = FALSE])]

img_onload(s) == server_is_online(Loaded(s))

img_onerror(s) == server_is_offline(Loaded(s))

\* the timeout set by check_server_status runs it again
timeout_check_server_status(s) ==
  check_server_status([s EXCEPT !.timers = @ - 1])

\* ------------------------------------------------------------------------
\* Page load
\* ------------------------------------------------------------------------
\* The document as served for a repository: the lists are those of the two
\* newest commits with their first entry checked, the first two commit
\* checkboxes are checked, the schematic view is selected.
Document(graph) ==
  LET n == Len(graph)
      newest == At(graph, n - 1)
      older == At(graph, n - 2)
      layer_radios == LayersOf(newest, older)
  IN [commits |-> graph, commit1 |-> "", commit2 |-> "",
      checked |-> {0, 1}, commit1_hash |-> newest, commit2_hash |-> older,
      old_view |-> "undefined", current_view |-> "undefined", view_mode |-> "show_sch",
      pages |-> SheetsOf(newest, older), page_checked |-> 0, selected_sheet |-> Null,
      current_selected_page |-> 0, previous_selected_page |-> -1,
      layers |-> layer_radios,
      layer_checked |-> IF layer_radios = <<>> THEN -1 ELSE 0,
      pages_list_display |-> "inline", layers_list_display |-> "none",
      embed |-> Null, lastEmbed |-> Null, panZoom_instance |-> Null,
      sch_current_zoom |-> Null, sch_old_zoom |-> Null, sch_current_pan |-> Null,
      pcb_current_zoom |-> Null, pcb_old_zoom |-> Null, pcb_current_pan |-> Null,
      is_fullscreen |-> FALSE, fullscreenElement |-> FALSE, fullscreen_label |-> 0,
      requests |-> <<>>,
      server_status |-> 1, old_server_status |-> -1,
      server_offline_display |-> "", server_status_img |-> Null,
      timers |-> 0, status_log |-> <<>>, thrown |-> FALSE]

select_initial_commits(s) ==
  With([s EXCEPT !.commit1 = At(s.commits, Len(s.commits) - 1),
                 !.commit2 = At(s.commits, Len(s.commits) - 2)], LAMBDA s1 :
  With(commit_click(s1, s1.commit1, TRUE), LAMBDA s2 :
    IF s2.thrown THEN s2 ELSE commit_click(s2, s2.commit2, TRUE)))

selected_view == "schematic"

ready(s) ==
  With(select_initial_commits(check_server_status(s)), LAMBDA s1 :
    IF s1.thrown THEN s1
    ELSE
  With(update_commits(s1, TRUE), LAMBDA s2 :
    IF s2.thrown THEN s2
    ELSE IF selected_view = "schematic" THEN update_page(s2, TRUE)
    ELSE update_layer(s2, TRUE)))

\* ------------------------------------------------------------------------
\* Actions: one per handler the browser can run
\* ------------------------------------------------------------------------
Assign(r) ==
  /\ commits' = r.commits
  /\ commit1' = r.commit1
  /\ commit2' = r.commit2
  /\ checked' = r.checked
  /\ commit1_hash' = r.commit1_hash
  /\ commit2_hash' = r.commit2_hash
  /\ old_view' = r.old_view
  /\ current_view' = r.current_view
  /\ view_mode' = r.view_mode
  /\ pages' = r.pages
  /\ page_checked' = r.page_checked
  /\ selected_sheet' = r.selected_sheet
  /\ current_selected_page' = r.current_selected_page
  /\ previous_selected_page' = r.previous_selected_page
  /\ layers' = r.layers
  /\ layer_checked' = r.layer_checked
  /\ pages_list_display' = r.pages_list_display
  /\ layers_list_display' = r.layers_list_display
  /\ embed' = r.embed
  /\ lastEmbed' = r.lastEmbed
  /\ panZoom_instance' = r.panZoom_instance
  /\ sch_current_zoom' = r.sch_current_zoom
  /\ sch_old_zoom' = r.sch_old_zoom
  /\ sch_current_pan' = r.sch_current_pan
  /\ pcb_current_zoom' = r.pcb_current_zoom
  /\ pcb_old_zoom' = r.pcb_old_zoom
  /\ pcb_current_pan' = r.pcb_current_pan
  /\ is_fullscreen' = r.is_fullscreen
  /\ fullscreenElement' = r.fullscreenElement
  /\ fullscreen_label' = r.fullscreen_label
  /\ requests' = r.requests
  /\ server_status' = r.server_status
  /\ old_server_status' = r.old_server_status
  /\ server_offline_display' = r.server_offline_display
  /\ server_status_img' = r.server_status_img
  /\ timers' = r.timers
  /\ status_log' = r.status_log
  /\ thrown' = r.thrown

\* The history of a round trip through the PCB view: the zoom and pan the
\* schematic embed has when a handler switches from the schematic view to the
\* PCB view are recorded; the record is dropped when the 3D view is entered,
\* when a handler throws, and at the first onUpdatedCTM back in the
\* schematic view.
Track(r, name) ==
  IF r.thrown \/ r.current_view = "show_3d" THEN Null
  ELSE IF /\ current_view = "show_sch"
          /\ r.current_view = "show_pcb"
          /\ ~IsNull(panZoom_instance)
       THEN Some([zoom |-> Val(panZoom_instance).zoom,
                  pan |-> Val(panZoom_instance).pan])
  ELSE IF name = "onUpdatedCTM" /\ current_view = "show_sch" THEN Null
  ELSE sch_at_switch

\* The history of leaving a 2D view: when a handler run in the schematic or
\* the PCB view ends in another view, the zoom and pan the view showed are
\* recorded for it; the record of a view is dropped at the first onUpdatedCTM
\* in that view, and both records are dropped when a handler throws.
\* Only behaviours that start with the history switched on keep it.
TwoDViews == {"show_sch", "show_pcb"}

NothingLeft(on) == [on |-> on, show_sch |-> Null, show_pcb |-> Null]

TrackLeave(r, name) ==
  IF ~left_at.on THEN left_at
  ELSE IF r.thrown THEN NothingLeft(TRUE)
  ELSE IF /\ current_view \in TwoDViews
          /\ r.current_view # current_view
          /\ ~IsNull(panZoom_instance)
       THEN [left_at EXCEPT ![current_view] =
               Some([zoom |-> Val(panZoom_instance).zoom,
                     pan |-> Val(panZoom_instance).pan])]
  ELSE IF name = "onUpdatedCTM" /\ current_view \in TwoDViews
       THEN [left_at EXCEPT ![current_view] = Null]
  ELSE left_at

\* one run of a handler: its result, and the history of the run
Step(r, name, a) ==
  /\ Assign(r)
  /\ op' = name
  /\ arg' = a
  /\ sch_at_switch' = Track(r, name)
  /\ left_at' = TrackLeave(r, name)

\* whether the server answers the synchronous requests of loadFile
ServerUp == {TRUE}

Flag(b) == IF b THEN 1 ELSE 0

InitWith(graphs, history) ==
  \E graph \in graphs :
    \E r \in {ready(Document(graph))} :
       /\ commits = r.commits
       /\ commit1 = r.commit1
       /\ commit2 = r.commit2
       /\ checked = r.checked
       /\ commit1_hash = r.commit1_hash
       /\ commit2_hash = r.commit2_hash
       /\ old_view = r.old_view
       /\ current_view = r.current_view
       /\ view_mode = r.view_mode
       /\ pages = r.pages
       /\ page_checked = r.page_checked
       /\ selected_sheet = r.selected_sheet
       /\ current_selected_page = r.current_selected_page
       /\ previous_selected_page = r.previous_selected_page
       /\ layers = r.layers
       /\ layer_checked = r.layer_checked
       /\ pages_list_display = r.pages_list_display
       /\ layers_list_display = r.layers_list_display
       /\ embed = r.embed
       /\ lastEmbed = r.lastEmbed
       /\ panZoom_instance = r.panZoom_instance
       /\ sch_current_zoom = r.sch_current_zoom
       /\ sch_old_zoom = r.sch_old_zoom
       /\ sch_current_pan = r.sch_current_pan
       /\ pcb_current_zoom = r.pcb_current_zoom
       /\ pcb_old_zoom = r.pcb_old_zoom
       /\ pcb_current_pan = r.pcb_current_pan
       /\ is_fullscreen = r.is_fullscreen
       /\ fullscreenElement = r.fullscreenElement
       /\ fullscreen_label = r.fullscreen_label
       /\ requests = r.requests
       /\ server_status = r.server_status
       /\ old_server_status = r.old_server_status
       /\ server_offline_display = r.server_offline_display
       /\ server_status_img = r.server_status_img
       /\ timers = r.timers
       /\ status_log = r.status_log
       /\ thrown = r.thrown
       /\ op = "ready"
       /\ arg = 0
       /\ sch_at_switch = Null
       /\ left_at = NothingLeft(history)

InitOn(graphs) == InitWith(graphs, FALSE)

Init == InitOn(Graphs(NumViewCommits))

InitCommits == InitOn(Graphs(NumCommits))

InitPanZoom == InitOn(Graphs(2))

CommitClick ==
  \E i \in 0..(Len(commits) - 1), up \in ServerUp :
    /\ Step(commit_click(State, At(commits, i), up), "commit_click", i)

SelectNext2Commits ==
  \E up \in ServerUp :
    /\ Step(select_next_2_commits(State, up), "select_next_2_commits", 0)

SelectNextCommit ==
  \E up \in ServerUp :
    /\ Step(select_next_commit(State, up), "select_next_commit", 0)

SelectPreviows2Commits ==
  \E up \in ServerUp :
    /\ Step(select_previows_2_commits(State, up), "select_previows_2_commits", 0)

SelectPreviowsCommit ==
  \E up \in ServerUp :
    /\ Step(select_previows_commit(State, up), "select_previows_commit", 0)

ResetCommitsSelection ==
  \E up \in ServerUp :
    /\ Step(reset_commits_selection(State, up), "reset_commits_selection", 0)

CommitCheckboxChange ==
  \E i \in 0..(Len(commits) - 1) :
    /\ Step(commit_checkbox_change(State, i), "commit_checkbox_change", i)

ToggleSchPcbView ==
  \E up \in ServerUp :
    /\ Step(toggle_sch_pcb_view(State, up), "toggle_sch_pcb_view", 0)

ShowSch ==
  \E up \in ServerUp :
    /\ Step(show_sch(State, up), "show_sch", 0)

ShowPcb ==
  \E up \in ServerUp :
    /\ Step(show_pcb(State, up), "show_pcb", 0)

Show3d ==
  /\ Step(show_3d(State), "show_3d", 0)

SelectNextSchOrPcb ==
  \E cycle \in BOOLEAN, up \in ServerUp :
    /\ Step(select_next_sch_or_pcb(State, cycle, up), "select_next_sch_or_pcb", Flag(cycle))

SelectPreviewSchOrPcb ==
  \E cycle \in BOOLEAN, up \in ServerUp :
    /\ Step(select_preview_sch_or_pcb(State, cycle, up), "select_preview_sch_or_pcb", Flag(cycle))

PageRadioChange ==
  \E i \in 0..(Len(pages) - 1), up \in ServerUp :
    /\ view_mode = "show_sch"
    /\ Step(page_radio_change(State, i, up), "page_radio_change", i)

LayerRadioChange ==
  \E i \in 0..(Len(layers) - 1), up \in ServerUp :
    /\ view_mode = "show_pcb"
    /\ Step(layer_radio_change(State, i, up), "layer_radio_change", i)

SvgZoomIn ==
  /\ Step(svg_zoom_in(State), "svg_zoom_in", 0)

SvgZoomOut ==
  /\ Step(svg_zoom_out(State), "svg_zoom_out", 0)

SvgFitCenter ==
  /\ Step(svg_fit_center(State), "svg_fit_center", 0)

ManualPan ==
  \E d \in 1..Len(PanDirections) :
    \E r \in {manual_pan(State, PanDirections[d])} :
       /\ IF IsNull(r.panZoom_instance) THEN TRUE
          ELSE /\ Val(r.panZoom_instance).pan.x \in 0..MaxPanX
               /\ Val(r.panZoom_instance).pan.y \in 0..MaxPanY
       /\ Step(r, "manual_pan", d)

OnUpdatedCTM ==
  /\ ~IsNull(panZoom_instance)
  /\ Val(panZoom_instance).pending
  /\ Step(onUpdatedCTM(State), "onUpdatedCTM", 0)

CheckServerStatus ==
  /\ timers > 0
  /\ ~IsNull(server_status_img)
  /\ Val(server_status_img).src < MaxProbes
  /\ Step(timeout_check_server_status(State), "check_server_status",
          Val(server_status_img).src + 1)

ImgOnload ==
  /\ ~IsNull(server_status_img)
  /\ Val(server_status_img).loading
  /\ Step(img_onload(State), "img_onload", Val(server_status_img).src)

ImgOnerror ==
  /\ ~IsNull(server_status_img)
  /\ Val(server_status_img).loading
  /\ Step(img_onerror(State), "img_onerror", Val(server_status_img).src)

IfUrlExists ==
  \E url \in {Val(embed).src1, Val(embed).src2} :
    /\ Len(requests) < MaxRequests
    /\ Step(if_url_exists(State, url), "if_url_exists", Len(requests) + 1)

OnProgress ==
  \E k \in 1..Len(requests), status \in Statuses :
    /\ requests[k].readyState = "sent"
    /\ Step(onprogress(State, k, status), "onprogress", k)

RequestFails ==
  \E k \in 1..Len(requests) :
    /\ requests[k].readyState = "sent"
    /\ Step(request_fails(State, k), "request_fails", k)

ToogleFullscreen ==
  /\ Step(toogle_fullscreen(State), "toogle_fullscreen", 0)

BrowserExitsFullscreen ==
  /\ fullscreenElement
  /\ Step(browser_exits_fullscreen(State), "browser_exits_fullscreen", 0)

\* The viewer: commit selection in the graph, views, pages and layers
Next ==
  \/ CommitClick
  \/ ToggleSchPcbView
  \/ ShowSch
  \/ ShowPcb
  \/ Show3d
  \/ SelectNextSchOrPcb
  \/ SelectPreviewSchOrPcb
  \/ PageRadioChange
  \/ LayerRadioChange

Spec == Init /\ [][Next]_vars

\* The commit checkboxes and their keyboard navigation
NextCommits ==
  \/ CommitClick
  \/ SelectNext2Commits
  \/ SelectNextCommit
  \/ SelectPreviows2Commits
  \/ SelectPreviowsCommit
  \/ ResetCommitsSelection
  \/ CommitCheckboxChange

SpecCommits == InitCommits /\ [][NextCommits]_vars

\* Pan and zoom across the views
NextPanZoom ==
  \/ ToggleSchPcbView
  \/ ShowSch
  \/ ShowPcb
  \/ Show3d
  \/ LayerRadioChange
  \/ SvgZoomIn
  \/ SvgZoomOut
  \/ SvgFitCenter
  \/ ManualPan
  \/ OnUpdatedCTM

SpecPanZoom == InitPanZoom /\ [][NextPanZoom]_vars

\* Switching between the three views while zooming and panning, with the
\* history of the views left
InitViews == InitWith(Graphs(2), TRUE)

NextViews ==
  \/ ToggleSchPcbView
  \/ ShowSch
  \/ ShowPcb
  \/ Show3d
  \/ SvgZoomIn
  \/ SvgZoomOut
  \/ SvgFitCenter
  \/ ManualPan
  \/ OnUpdatedCTM

SpecViews == InitViews /\ [][NextViews]_vars

\* Fullscreen while commits, views, pages and layers change
InitFullscreen == InitOn(Graphs(2))

NextFullscreen ==
  \/ ToogleFullscreen
  \/ BrowserExitsFullscreen
  \/ CommitClick
  \/ ToggleSchPcbView
  \/ PageRadioChange
  \/ LayerRadioChange

SpecFullscreen == InitFullscreen /\ [][NextFullscreen]_vars

\* The requests of if_url_exists and their outcomes
InitUrl == InitOn(Graphs(2))

NextUrl ==
  \/ IfUrlExists
  \/ OnProgress
  \/ RequestFails

SpecUrl == InitUrl /\ [][NextUrl]_vars

\* The server probes and their outcomes while commits and views change
InitServer == InitOn(Graphs(2))

NextServer ==
  \/ CheckServerStatus
  \/ ImgOnload
  \/ ImgOnerror
  \/ CommitClick
  \/ ToggleSchPcbView

SpecServer == InitServer /\ [][NextServer]_vars

\* The viewer on the project whose sheets are renamed from commit to commit
InitPages == InitOn({RenamedHashes})

SpecPages == InitPages /\ [][Next]_vars

\* ------------------------------------------------------------------------
\* Properties
\* ------------------------------------------------------------------------
Lo(S) == CHOOSE x \in S : \A y \in S : x <= y
Hi(S) == CHOOSE x \in S : \A y \in S : x >= y

\* the keyboard operations that move the commit selection
NavOps == {"select_next_commit", "select_previows_commit",
           "select_next_2_commits", "select_previows_2_commits"}

\* the href '../<commit>/_KIRI_/sch/<page>.svg?t=<commit>' of a page radio
SchHref(commit, page_value) ==
  <<"../", commit, "/_KIRI_/sch/">> \o page_filename(page_value)
    \o <<".svg", "?t=", commit>>

\* C1: after commit_click returns for a hash of the graph with the schematic
\* view shown before and after, the two overlay images show the selected
\* page of commit1 and of commit2, stamped with their hashes, and the hidden
\* fields commit1_hash and commit2_hash hold the pair.
C1_CommitClickShowsPair ==
  [][(op' = "commit_click" /\ ~thrown'
      /\ view_mode = "show_sch" /\ view_mode' = "show_sch")
     => /\ HasIndex(pages', page_checked')
        /\ ~IsNull(embed')
        /\ Val(embed').kind = "svg"
        /\ Val(embed').src1 = SchHref(commit1', At(pages', page_checked'))
        /\ Val(embed').src2 = SchHref(commit2', At(pages', page_checked'))
        /\ commit1_hash' = commit1'
        /\ commit2_hash' = commit2']_vars

\* a click in the schematic view has moved commit2 to the oldest of three
\* commits, and the second image shows it
C1_Witness ==
  /\ op = "commit_click" /\ ~thrown /\ view_mode = "show_sch"
  /\ Len(commits) = 3 /\ arg = 0
  /\ commit2 = "c0" /\ commit2_hash = "c0"
  /\ ~IsNull(embed)
  /\ Val(embed).src2 = SchHref("c0", At(pages, page_checked))

\* C2: after a keyboard commit-navigation operation or
\* reset_commits_selection completes with two checkboxes checked, commit1
\* and commit2 are the two commits whose checkboxes are checked.
C2_PairFollowsCheckboxes ==
  (op \in NavOps \cup {"reset_commits_selection"} /\ ~thrown
   /\ Cardinality(checked) = 2)
  => {commit1, commit2} = {CheckboxValue(commits, i) : i \in checked}

\* C3: at most two commit checkboxes are checked in every reachable state,
\* and a navigation operation keeps the number of checked commits.
C3_AtMostTwoChecked ==
  /\ [](Cardinality(checked) <= 2)
  /\ [][op' \in NavOps => Cardinality(checked') = Cardinality(checked)]_vars

\* the change handler has undone the check of a third commit
C3_Witness ==
  /\ op = "commit_checkbox_change"
  /\ Cardinality(checked) = 2
  /\ arg \notin checked
  /\ Len(commits) >= 3

\* C4: commit_click(hash), hash at index h, commit2 at i2 < i1 of commit1,
\* replaces one member of the pair: commit2 if h <= i2, else commit1 if
\* h >= i1, else the nearer one and commit1 on a tie; a click on commit1 or
\* commit2 leaves the pair unchanged.
C4_CommitClickReplacesOne ==
  [][(op' = "commit_click" /\ ~thrown'
      /\ IndexOf(commits, commit2) >= 0
      /\ IndexOf(commits, commit2) < IndexOf(commits, commit1))
     => LET h == arg'
            hash == At(commits, h)
            i1 == IndexOf(commits, commit1)
            i2 == IndexOf(commits, commit2)
            becomes2 == commit2' = hash /\ commit1' = commit1
            becomes1 == commit1' = hash /\ commit2' = commit2
        IN /\ IF h <= i2 THEN becomes2
              ELSE IF h >= i1 THEN becomes1
              ELSE IF h - i2 < i1 - h THEN becomes2
              ELSE becomes1
           /\ (h \in {i1, i2} => commit1' = commit1 /\ commit2' = commit2)]_vars

\* a click on the commit halfway between commit2 and commit1 has replaced
\* commit1
C4_Witness ==
  /\ op = "commit_click" /\ ~thrown
  /\ Len(commits) = 4 /\ arg = 1
  /\ commit1 = "c1" /\ commit2 = "c0"

\* C5: toggle_sch_pcb_view, called with a non-empty page list and a
\* non-empty layer list, ends in the PCB view from the schematic view, in
\* the 3D view from the PCB view and in the schematic view from the 3D
\* view, with the checked view_mode radio equal to current_view.
C5_ToggleCycle ==
  [][(op' = "toggle_sch_pcb_view" /\ ~thrown'
      /\ pages # <<>> /\ layers # <<>>)
     => /\ view_mode = "show_sch" => current_view' = "show_pcb"
        /\ view_mode = "show_pcb" => current_view' = "show_3d"
        /\ view_mode = "show_3d" => current_view' = "show_sch"
        /\ view_mode' = current_view']_vars

\* a toggle has ended in the 3D view of a project with pages and layers
C5_Witness ==
  /\ op = "toggle_sch_pcb_view" /\ ~thrown
  /\ pages # <<>> /\ layers # <<>>
  /\ current_view = "show_3d" /\ view_mode = "show_3d"
  /\ ~IsNull(embed) /\ Val(embed).kind = "3d"

\* C6: select_next_2_commits with two commits checked at a < b of n: (a, b+1)
\* if b < n-1, else (min(a+1, n-2), n-1); two distinct in-range commits are
\* checked afterwards.
C6_SelectNext2Commits ==
  [][(op' = "select_next_2_commits" /\ Cardinality(checked) = 2)
     => LET a == Lo(checked)
            b == Hi(checked)
            n == Len(commits)
        IN /\ ~thrown'
           /\ checked' = IF b < n - 1 THEN {a, b + 1}
                         ELSE {Min(a + 1, n - 2), n - 1}
           /\ Cardinality(checked') = 2
           /\ checked' \subseteq 0..(n - 1)]_vars

\* the second commit was the last of four and the first has moved forward
C6_Witness ==
  /\ op = "select_next_2_commits" /\ ~thrown
  /\ Len(commits) = 4
  /\ checked = {2, 3}

\* C7: select_previows_2_commits with two commits checked at a < b:
\* (a, b-1) when b-1 > a, (a-1, a) when b = a+1 and a > 0, and (0, 1) stays;
\* two distinct in-range commits are checked afterwards.
C7_SelectPreviows2Commits ==
  [][(op' = "select_previows_2_commits" /\ Cardinality(checked) = 2)
     => LET a == Lo(checked)
            b == Hi(checked)
            n == Len(commits)
        IN /\ ~thrown'
           /\ checked' = IF b - 1 > a THEN {a, b - 1}
                         ELSE IF a > 0 THEN {a - 1, a}
                         ELSE {0, 1}
           /\ Cardinality(checked') = 2
           /\ checked' \subseteq 0..(n - 1)]_vars

\* the second commit has moved back next to the first, which stayed
C7_Witness ==
  /\ op = "select_previows_2_commits" /\ ~thrown
  /\ Len(commits) = 4
  /\ checked = {1, 2}

\* C8: with two commits checked at a < b of n, select_next_commit gives
\* (min(a+1, n-2), min(b+1, n-1)) and select_previows_commit gives
\* (max(a-1, 0), max(b-1, 1)): two distinct indices inside 0..n-1.
C8_SelectNextPreviowsCommit ==
  [][(op' \in {"select_next_commit", "select_previows_commit"}
      /\ Cardinality(checked) = 2)
     => LET a == Lo(checked)
            b == Hi(checked)
            n == Len(commits)
        IN /\ ~thrown'
           /\ op' = "select_next_commit"
                => checked' = {Min(a + 1, n - 2), Min(b + 1, n - 1)}
           /\ op' = "select_previows_commit"
                => checked' = {Max(a - 1, 0), Max(b - 1, 1)}
           /\ Cardinality(checked') = 2
           /\ checked' \subseteq 0..(n - 1)]_vars

\* both commits have moved forward to the end of a list of four
C8_Witness ==
  /\ op = "select_next_commit" /\ ~thrown
  /\ Len(commits) = 4
  /\ checked = {2, 3}
  /\ commit1 = "c3"

\* the item a step forward or backward selects in a list of n items
StepForward(i, n, cycle) ==
  IF i + 1 < n THEN i + 1 ELSE IF cycle THEN 0 ELSE n - 1
StepBackward(i, n, cycle) ==
  IF i > 0 THEN i - 1 ELSE IF cycle THEN n - 1 ELSE 0

\* C9: in the schematic view with page i of n selected, after
\* select_next_sch_or_pcb(cycle) returns the selected page is i+1, or at
\* the end page 0 with cycle and page n-1 without; after
\* select_preview_sch_or_pcb(cycle) returns it is i-1, or at the start page
\* n-1 with cycle and page 0 without; likewise for the layers in the PCB
\* view.
C9_NavigationMovesByOne ==
  [][(op' \in {"select_next_sch_or_pcb", "select_preview_sch_or_pcb"}
      /\ ~thrown')
     => /\ (view_mode = "show_sch" /\ current_view = "show_sch"
            /\ HasIndex(pages, page_checked))
           => page_checked' =
                IF op' = "select_next_sch_or_pcb"
                THEN StepForward(page_checked, Len(pages), arg' = 1)
                ELSE StepBackward(page_checked, Len(pages), arg' = 1)
        /\ (view_mode = "show_pcb" /\ current_view = "show_pcb"
            /\ HasIndex(layers, layer_checked))
           => layer_checked' =
                IF op' = "select_next_sch_or_pcb"
                THEN StepForward(layer_checked, Len(layers), arg' = 1)
                ELSE StepBackward(layer_checked, Len(layers), arg' = 1)]_vars

\* C10: when the view is switched from the schematic, at zoom z and pan p,
\* to the PCB (show_pcb) and then back to the schematic (show_sch), the
\* first onUpdatedCTM of the new schematic embed applies zoom z and pan p.
C10_SchPanZoomSurvivesRoundTrip ==
  [][(op' = "onUpdatedCTM" /\ current_view = "show_sch"
      /\ ~IsNull(sch_at_switch))
     => /\ Val(panZoom_instance').zoom = Val(sch_at_switch).zoom
        /\ Val(panZoom_instance').pan = Val(sch_at_switch).pan]_vars

\* C11: in every state is_fullscreen equals the browser's fullscreen state,
\* the fullscreen_label element is in the diff container exactly when
\* is_fullscreen is true, and there is never more than one such element.
C11_FullscreenFlagAndLabel ==
  /\ is_fullscreen = fullscreenElement
  /\ (fullscreen_label > 0) = is_fullscreen
  /\ fullscreen_label <= 1

\* C12: once a request of if_url_exists has ended, its callback has been
\* invoked exactly once: with true when the response status was 2xx, and
\* with false for any other status and for a request that failed.
C12_CallbackOncePerRequest ==
  \A k \in 1..Len(requests) :
    requests[k].readyState # "sent"
      => requests[k].called =
           << /\ requests[k].readyState = "aborted"
              /\ requests[k].status \div 100 = 2 >>

\* C12 as amended: a request whose response has arrived has had its
\* callback invoked exactly once, with true when the status was 2xx and with
\* false for any other status; for a request that failed before any
\* response, and for one still waiting, the callback has not been invoked.
C12_CallbackOncePerResponse ==
  \A k \in 1..Len(requests) :
    /\ requests[k].readyState = "aborted"
         => requests[k].called = << requests[k].status \div 100 = 2 >>
    /\ requests[k].readyState \in {"sent", "failed"}
         => requests[k].called = <<>>

\* one request was answered 200 and its callback got true, another was
\* answered 404 and its callback got false
C12_Witness ==
  /\ op = "onprogress"
  /\ \E k \in 1..Len(requests) :
       requests[k].status = 200 /\ requests[k].called = <<TRUE>>
  /\ \E k \in 1..Len(requests) :
       requests[k].status = 404 /\ requests[k].called = <<FALSE>>

\* C13: when show_pcb, called by its radio or by the view toggle, runs
\* update_layer while the layer list is empty, the handler returns in the
\* schematic view: current_view = show_sch, the show_sch radio is the one
\* checked, the page list is displayed and the overlay images carry the
\* schematic paths of the selected page, no PCB path.
C13_EmptyLayersFallBackToSch ==
  [][(layers = <<>>
      /\ \/ op' = "show_pcb"
         \/ op' = "toggle_sch_pcb_view" /\ view_mode = "show_sch")
     => /\ ~thrown'
        /\ current_view' = "show_sch"
        /\ view_mode' = "show_sch"
        /\ pages_list_display' = "inline"
        /\ ~IsNull(embed')
        /\ Val(embed').kind = "svg"
        /\ Val(embed').src1 = SchHref(commit1', At(pages', page_checked'))
        /\ Val(embed').src2 = SchHref(commit2', At(pages', page_checked'))]_vars

\* the PCB view was asked for in a project without layout and the
\* schematic view is shown
C13_Witness ==
  /\ op = "show_pcb" /\ ~thrown
  /\ layers = <<>>
  /\ current_view = "show_sch" /\ old_view = "show_pcb"
  /\ view_mode = "show_sch"

\* the lines of commit1's sch_sheets file followed by those of commit2's
BothFiles(c1, c2) == sch_sheets_file(c1) \o sch_sheets_file(c2)

\* the position of the first non-empty line of the two files that names sheet
FirstLineOf(sheet, c1, c2) ==
  LET lines == BothFiles(c1, c2)
  IN Lo({k \in 1..Len(lines) : lines[k] # <<>> /\ lines[k][1] = sheet})

\* list is the order-preserving union of the two files: it holds the first
\* field of every non-empty line, each once, in the order of their first lines
IsOrderedUnion(list, c1, c2) ==
  LET lines == BothFiles(c1, c2)
  IN /\ {list[i] : i \in 1..Len(list)}
          = {lines[k][1] : k \in {j \in 1..Len(lines) : lines[j] # <<>>}}
     /\ \A i, j \in 1..Len(list) :
          i < j => FirstLineOf(list[i], c1, c2) < FirstLineOf(list[j], c1, c2)

\* C14: the sheet list update_sheets_list computes for (commit1, commit2),
\* which is the page list after a commit_click in the schematic view, is the
\* order-preserving union of the two commits' sch_sheets files: commit1's
\* sheets in file order, then commit2's sheets not yet present, none twice.
C14_SheetsAreOrderedUnion ==
  [][(op' = "commit_click" /\ ~thrown' /\ view_mode' = "show_sch")
     => IsOrderedUnion(pages', commit1', commit2')]_vars

\* the pair (c2, c1): c2 lists top twice and c1 adds main
C14_Witness ==
  /\ op = "commit_click" /\ ~thrown /\ view_mode = "show_sch"
  /\ commit1 = "c2" /\ commit2 = "c1"
  /\ pages = <<SheetTop, SheetPower, SheetMain>>

\* C15: when the update_sheets_list call of a commit_click in the schematic
\* view re-renders the page list and the sheet selected before the call is
\* in the new list, that sheet is the selected page when update_sheets_list
\* returns.
C15_SelectedSheetKept ==
  [][(op' = "commit_click" /\ view_mode = "show_sch"
      /\ HasIndex(pages, page_checked))
     => LET r == update_sheets_list(State, commit1', commit2', TRUE)
            sheet == At(pages, page_checked)
        IN (r.pages # pages /\ Includes(r.pages, sheet))
           => /\ ~r.thrown
              /\ HasIndex(r.pages, r.page_checked)
              /\ At(r.pages, r.page_checked) = sheet]_vars

\* sheet main, the first page of (c1, c0), is selected as the third page of
\* the list rendered for (c2, c0)
C15_Witness ==
  /\ op = "commit_click" /\ ~thrown /\ view_mode = "show_sch"
  /\ arg = 2 /\ commit1 = "c2" /\ commit2 = "c0"
  /\ pages = <<SheetTop, SheetPower, SheetMain>>
  /\ page_checked = 2
  /\ selected_sheet = Some(SheetMain)

\* C16: when the update_sheets_list call of a commit_click in the schematic
\* view re-renders the page list, the list has a selected page when
\* update_sheets_list returns, and it is the last item of the new list when
\* the sheet selected before the call is not in the new list.
C16_LastSheetSelected ==
  [][(op' = "commit_click" /\ view_mode = "show_sch"
      /\ HasIndex(pages, page_checked))
     => LET r == update_sheets_list(State, commit1', commit2', TRUE)
            sheet == At(pages, page_checked)
        IN r.pages # pages
           => /\ ~r.thrown
              /\ HasIndex(r.pages, r.page_checked)
              /\ ~Includes(r.pages, sheet)
                   => r.page_checked = Len(r.pages) - 1]_vars

\* C17: after a handler has run update_page and returned normally in the
\* schematic view with a non-empty page list, a page radio is checked and
\* the two overlay images carry the schematic paths built from that page's
\* file name; and when commit_click or show_sch started update_page with no
\* page selected, the first page is the one selected.
C17_UpdatePageSelectsOnePage ==
  [][(~thrown' /\ current_view' = "show_sch" /\ pages' # <<>>)
     => /\ HasIndex(pages', page_checked')
        /\ ~IsNull(embed')
        /\ Val(embed').kind = "svg"
        /\ Val(embed').src1 = SchHref(commit1', At(pages', page_checked'))
        /\ Val(embed').src2 = SchHref(commit2', At(pages', page_checked'))
        /\ (/\ page_checked = -1
            /\ \/ op' = "show_sch"
               \/ op' = "commit_click" /\ view_mode = "show_sch")
           => page_checked' = 0]_vars

\* the script's record for a 2D view is the zoom and pan of `shown`
RecordedAs(rec_zoom, rec_pan, shown) ==
  /\ rec_zoom = Some(shown.zoom)
  /\ rec_pan = Some(shown.pan)

\* C18: whenever a handler leaves the schematic or the PCB view, showing
\* zoom z and pan p, for any other view, z and p are recorded for the view
\* left; and the first onUpdatedCTM of the next embed of that view applies
\* z and p.
C18_PanZoomKeptAcrossViews ==
  [][/\ (/\ ~thrown'
          /\ current_view \in TwoDViews
          /\ current_view' # current_view
          /\ ~IsNull(panZoom_instance))
         => IF current_view = "show_sch"
            THEN RecordedAs(sch_current_zoom', sch_current_pan',
                             Val(panZoom_instance))
            ELSE RecordedAs(pcb_current_zoom', pcb_current_pan',
                             Val(panZoom_instance))
     /\ (/\ op' = "onUpdatedCTM"
          /\ current_view \in TwoDViews
          /\ ~IsNull(left_at[current_view]))
         => /\ Val(panZoom_instance').zoom = Val(left_at[current_view]).zoom
            /\ Val(panZoom_instance').pan = Val(left_at[current_view]).pan]_vars

\* the outcome of the probe whose event ran last: 1 loaded, 0 failed
Outcome(event) == IF event = "img_onload" THEN 1 ELSE 0

ProbeEvents == {"img_onload", "img_onerror"}

\* C19: once a probe has completed, the server_offline banner is displayed
\* exactly when server_status = 0, and old_server_status = server_status;
\* the event of a completed probe sets server_status to its outcome (1 load,
\* 0 error) and logs a status message exactly when the outcome differs from
\* the status recorded before; nothing else logs a status message; and every
\* run of check_server_status leaves a probe loading and a timeout pending.
C19_ServerStatusTracking ==
  [][/\ old_server_status' # -1
          => /\ server_offline_display' =
                  (IF server_status' = 0 THEN "block" ELSE "none")
             /\ old_server_status' = server_status'
     /\ op' \in ProbeEvents
          => /\ server_status' = Outcome(op')
             /\ status_log' =
                  (IF Outcome(op') # old_server_status
                   THEN Append(status_log,
                               IF Outcome(op') = 1 THEN "Server is Online"
                               ELSE "Server is Offline")
                   ELSE status_log)
     /\ status_log' # status_log
          => op' \in ProbeEvents /\ server_status' # old_server_status
     /\ op' = "check_server_status"
          => /\ timers' > 0
             /\ ~IsNull(server_status_img')
             /\ Val(server_status_img').loading]_vars

\* a probe failed after the server had been recorded online: the banner is
\* shown and the second status message is logged
C19_Witness ==
  /\ op = "img_onerror"
  /\ server_status = 0
  /\ server_offline_display = "block"
  /\ status_log = <<"Server is Online", "Server is Offline">>
  /\ timers > 0

====
